---- MODULE Spec2Model ----
(***************************************************************************)
(* A model of the video-call session of src/src/pages/Videocall.tsx: the   *)
(* VideoCall component's state, refs, closures and effects, the two        *)
(* socket.io channels, the PeerJS peer objects, device streams and calls,  *)
(* and every handler the component registers.                              *)
(*                                                                         *)
(* A handler is one action.  A handler that sets React state is followed,  *)
(* in the same action, by the commit it causes: the cleanups and re-runs   *)
(* of the effects whose dependencies changed (Rerender).  Handlers are     *)
(* written as functions from the state record Cur to the next state        *)
(* record, so that a handler can be followed by the commit; Set(s) makes   *)
(* s the next state.                                                       *)
(***************************************************************************)
EXTENDS Integers, Sequences, FiniteSets, TLC

VARIABLES
  meetingId, token, user,     \* props: is the value present (TRUE) or absent
  creatorIsUser,              \* the server's answer: meeting.creatorId === user.id
  phase,                      \* "rendered" (before the effects), "running", "unmounted"
  socket, voiceSocket,        \* useState: channel object set (TRUE) or null
  peer,                       \* useState: 0 null, 1 newPeer, 2 the peer with a suffixed id
  isCreator, meetingEnded, peerStatus, participants, cameraOn, micOn, messages,
  mediaStreamRef,             \* useRef: 0 null, else the stream's number
  peerCallsRef,               \* useRef Map: remote peer id -> call number (0 absent)
  hasJoined, connectionTimeout, closureMicOn,   \* the socket/peer effect's closure
  chatConn, voiceConn,        \* socket.io objects
  peers,                      \* PeerJS objects 1 and 2
  streams,                    \* device streams, numbered by the request that gave them
  calls,                      \* PeerJS media connections
  pending,                    \* getUserMedia requests in flight
  nAcq, nCalls,               \* getUserMedia calls / calls created so far
  retryTimers, joinTimers, callTimers, navTimers,   \* pending setTimeout callbacks
  fetchPending,               \* the meeting metadata query is in flight
  hangupsAwaiting,            \* hangup() runs awaiting the end-meeting endpoint
  emitted,                    \* socket.emit calls, by event name
  endpointCalls, endpointFailed, ownerHangups, \* PUT /end calls, rejected ones, hangups taking the owner path
  navigates,                  \* navigate('/realtime') calls
  alerts,                     \* alert() texts shown
  timeoutFired,               \* firings of the 20 s connectionTimeout callback
  chatConnects,               \* 'connect' events delivered on the chat socket
  endedReceived,              \* reasons received with 'meeting-ended'
  nJoins, pureJoins,          \* 'user-joined' events so far; all of them fresh ids and no other roster event
  lastHangup,                 \* what the last hangup() run did ("none" before any)
  joinedConn,                 \* the number of the chat connection 'join-meeting' was last emitted on
  attempts,                   \* socket.io: reconnection attempts failed in a row, per channel
  lastOp                      \* the last roster event or sendMessage call: its name and argument,
                              \* the length of the roster / transcript it found, and a bit that
                              \* flips at every such event

vars == <<meetingId, token, user, creatorIsUser, phase, socket, voiceSocket, peer,
          isCreator, meetingEnded, peerStatus, participants, cameraOn, micOn, messages,
          mediaStreamRef, peerCallsRef, hasJoined, connectionTimeout, closureMicOn,
          chatConn, voiceConn, peers, streams, calls, pending, nAcq, nCalls,
          retryTimers, joinTimers, callTimers, navTimers, fetchPending,
          hangupsAwaiting, emitted, endpointCalls, endpointFailed, ownerHangups,
          navigates, alerts, timeoutFired, chatConnects, endedReceived,
          nJoins, pureJoins, lastHangup, joinedConn, attempts, lastOp>>

----------------------------------------------------------------------------
(* Bounds of the model *)

MaxAcq == 4          \* getUserMedia calls in one session
MaxCalls == 2        \* calls created in one session
MaxTimers == 1       \* pending timers of one kind
MaxRetryTimers == 2  \* pending 10 s timers of the peer's error handler
MaxMsgs == 1         \* chat entries appended after the welcome message
MaxCount == 2        \* counters of emissions saturate here
MaxHangups == 2      \* hangup() runs in one session
MaxRemote == 2       \* remote user ids 1..MaxRemote in the session model
MaxRosterIds == 11   \* remote user ids in the roster model

(* Program constants *)

RosterCap == 10      \* prev.length >= 10
ReconnectionAttempts == 5   \* reconnectionAttempts: 5

LocalId == 0         \* user.id
FallbackId == -1     \* 'local', the id of the first roster entry when user is absent

Remote == 1..MaxRemote
RosterIds == 1..MaxRosterIds
Reasons == {"La reunion ya ha finalizado.", "cerrada"}
\* chat texts, as sequences of characters
Texts == {<<>>, <<" ">>, <<"h">>, <<" ", "h", " ">>, <<"h", " ", "h">>}
Events == {"join-meeting", "send-message", "end-meeting", "join-voice-room", "leave-voice-room"}

Inc(n) == IF n < MaxCount THEN n + 1 ELSE n

\* String.prototype.trim(): white space removed from both ends
RECURSIVE TrimStart(_)
TrimStart(t) == IF t # <<>> /\ Head(t) = " " THEN TrimStart(Tail(t)) ELSE t

RECURSIVE TrimEnd(_)
TrimEnd(t) == IF t # <<>> /\ t[Len(t)] = " " THEN TrimEnd(SubSeq(t, 1, Len(t) - 1)) ELSE t

Trim(t) == TrimEnd(TrimStart(t))
Min(a, b) == IF a < b THEN a ELSE b

----------------------------------------------------------------------------
(* The state as a record *)

Cur ==
  [meetingId |-> meetingId, token |-> token, user |-> user, creatorIsUser |-> creatorIsUser,
   phase |-> phase, socket |-> socket, voiceSocket |-> voiceSocket, peer |-> peer,
   isCreator |-> isCreator, meetingEnded |-> meetingEnded, peerStatus |-> peerStatus,
   participants |-> participants, cameraOn |-> cameraOn, micOn |-> micOn,
   messages |-> messages, mediaStreamRef |-> mediaStreamRef, peerCallsRef |-> peerCallsRef,
   hasJoined |-> hasJoined, connectionTimeout |-> connectionTimeout,
   closureMicOn |-> closureMicOn, chatConn |-> chatConn, voiceConn |-> voiceConn,
   peers |-> peers, streams |-> streams, calls |-> calls, pending |-> pending,
   nAcq |-> nAcq, nCalls |-> nCalls, retryTimers |-> retryTimers, joinTimers |-> joinTimers,
   callTimers |-> callTimers, navTimers |-> navTimers, fetchPending |-> fetchPending,
   hangupsAwaiting |-> hangupsAwaiting, emitted |-> emitted,
   endpointCalls |-> endpointCalls, endpointFailed |-> endpointFailed,
   ownerHangups |-> ownerHangups, navigates |-> navigates, alerts |-> alerts,
   timeoutFired |-> timeoutFired, chatConnects |-> chatConnects,
   endedReceived |-> endedReceived, nJoins |-> nJoins, pureJoins |-> pureJoins,
   lastHangup |-> lastHangup, joinedConn |-> joinedConn, attempts |-> attempts,
   lastOp |-> lastOp]

Set(s) ==
  /\ meetingId' = s.meetingId /\ token' = s.token /\ user' = s.user
  /\ creatorIsUser' = s.creatorIsUser /\ phase' = s.phase
  /\ socket' = s.socket /\ voiceSocket' = s.voiceSocket /\ peer' = s.peer
  /\ isCreator' = s.isCreator /\ meetingEnded' = s.meetingEnded
  /\ peerStatus' = s.peerStatus /\ participants' = s.participants
  /\ cameraOn' = s.cameraOn /\ micOn' = s.micOn /\ messages' = s.messages
  /\ mediaStreamRef' = s.mediaStreamRef /\ peerCallsRef' = s.peerCallsRef
  /\ hasJoined' = s.hasJoined /\ connectionTimeout' = s.connectionTimeout
  /\ closureMicOn' = s.closureMicOn /\ chatConn' = s.chatConn /\ voiceConn' = s.voiceConn
  /\ peers' = s.peers /\ streams' = s.streams /\ calls' = s.calls /\ pending' = s.pending
  /\ nAcq' = s.nAcq /\ nCalls' = s.nCalls /\ retryTimers' = s.retryTimers
  /\ joinTimers' = s.joinTimers /\ callTimers' = s.callTimers /\ navTimers' = s.navTimers
  /\ fetchPending' = s.fetchPending /\ hangupsAwaiting' = s.hangupsAwaiting
  /\ emitted' = s.emitted /\ endpointCalls' = s.endpointCalls
  /\ endpointFailed' = s.endpointFailed /\ ownerHangups' = s.ownerHangups
  /\ navigates' = s.navigates /\ alerts' = s.alerts /\ timeoutFired' = s.timeoutFired
  /\ chatConnects' = s.chatConnects /\ endedReceived' = s.endedReceived
  /\ nJoins' = s.nJoins /\ pureJoins' = s.pureJoins /\ lastHangup' = s.lastHangup
  /\ joinedConn' = s.joinedConn /\ attempts' = s.attempts /\ lastOp' = s.lastOp

(* The budgets of the model: a step that would exceed one is not taken. *)
WithinBounds(s) ==
  /\ s.nAcq <= MaxAcq
  /\ s.nCalls <= MaxCalls
  /\ s.retryTimers <= MaxRetryTimers /\ s.joinTimers <= MaxTimers
  /\ Len(s.callTimers) <= MaxTimers /\ s.navTimers <= MaxTimers
  /\ Len(s.messages) <= 1 + MaxMsgs
  /\ s.endpointCalls <= MaxHangups

\* (s is evaluated once, then tested and assigned)
Step(s) == \E v \in {s} : WithinBounds(v) /\ Set(v)

\* s, with the event that led to it noted in lastOp
Did(s, op, id, text, n) ==
  [s EXCEPT !.lastOp = [op |-> op, id |-> id, text |-> text, n |-> n, tick |-> ~@.tick]]

NoStream == [st |-> "none", video |-> FALSE, audio |-> FALSE]
NoCall == [st |-> "none", peer |-> 0, dir |-> "none", closes |-> 0]

Init ==
  /\ meetingId \in BOOLEAN /\ token \in BOOLEAN /\ user \in BOOLEAN
  /\ creatorIsUser \in BOOLEAN
  /\ phase = "rendered"
  /\ socket = FALSE /\ voiceSocket = FALSE /\ peer = 0
  /\ isCreator = FALSE /\ meetingEnded = FALSE /\ peerStatus = "connecting"
  /\ participants = <<[id |-> IF user THEN LocalId ELSE FallbackId, name |-> "Tu", isLocal |-> TRUE]>>
  /\ cameraOn = FALSE /\ micOn = TRUE
  /\ messages = <<[id |-> 1, author |-> "Sistema", text |-> <<"B">>]>>
  /\ mediaStreamRef = 0
  /\ peerCallsRef = [p \in Remote |-> 0]
  /\ hasJoined = FALSE /\ connectionTimeout = FALSE /\ closureMicOn = TRUE
  /\ chatConn = "none" /\ voiceConn = "none"
  /\ peers = [i \in 1..2 |-> "none"]
  /\ streams = [n \in 1..(MaxAcq + 1) |-> NoStream]
  /\ calls = [c \in 1..(MaxCalls + MaxRemote + 1) |-> NoCall]
  /\ pending = {}
  /\ nAcq = 0 /\ nCalls = 0
  /\ retryTimers = 0 /\ joinTimers = 0 /\ callTimers = <<>> /\ navTimers = 0
  /\ fetchPending = FALSE /\ hangupsAwaiting = 0
  /\ emitted = [e \in Events |-> 0]
  /\ endpointCalls = 0 /\ endpointFailed = 0 /\ ownerHangups = 0
  /\ navigates = 0 /\ alerts = {}
  /\ timeoutFired = 0 /\ chatConnects = 0 /\ endedReceived = {}
  /\ nJoins = 0 /\ pureJoins = TRUE /\ lastHangup = "none" /\ joinedConn = 0
  /\ attempts = [chat |-> 0, voice |-> 0]
  /\ lastOp = [op |-> "none", id |-> 0, text |-> <<>>, n |-> 0, tick |-> FALSE]

----------------------------------------------------------------------------
(* Library objects: device streams, calls, peers, channels *)

\* stream.getTracks().forEach(t => t.stop())
StopTracks(s, n) ==
  IF n = 0 \/ s.streams[n].st = "none" THEN s ELSE [s EXCEPT !.streams[n].st = "stopped"]

\* navigator.mediaDevices.getUserMedia(...): one more request in flight
GetUserMedia(s, kind, video, audio, cur) ==
  [s EXCEPT !.nAcq = @ + 1,
            !.pending = @ \cup {[n |-> s.nAcq + 1, kind |-> kind, video |-> video,
                                 audio |-> audio, cur |-> cur, mounted |-> TRUE]}]

\* socket.emit(event, ...)
Emit(s, e) == [s EXCEPT !.emitted[e] = Inc(@)]

\* socket.disconnect()
Disconnect(c) == IF c = "none" THEN c ELSE "closed"

\* a call closes and its 'close' handler runs; the handler of an outgoing call
\* deletes the map entry of the call's peer id
CallClosed(s, c) ==
  IF s.calls[c].st # "open" THEN s
  ELSE [s EXCEPT !.calls[c].st = "closed",
                 !.peerCallsRef = IF s.calls[c].dir = "out"
                                  THEN [@ EXCEPT ![s.calls[c].peer] = 0] ELSE @]

\* the 'error' handler of a call: the handler of an outgoing call deletes the
\* map entry of the call's peer id, the handler of an answered call only logs
CallErrorHandler(s, c) ==
  IF s.calls[c].dir = "out" THEN [s EXCEPT !.peerCallsRef[s.calls[c].peer] = 0] ELSE s

\* call.close(): one more invocation of close on the call; it closes if open
Close(s, c) == [CallClosed(s, c) EXCEPT !.calls[c].closes = @ + 1]

RECURSIVE CloseEach(_, _)
CloseEach(s, cs) ==
  IF cs = {} THEN s
  ELSE LET c == CHOOSE x \in cs : TRUE IN CloseEach(Close(s, c), cs \ {c})

\* peerCallsRef.current.forEach(call => call.close()) without the clear()
CloseAllCalls_NoClear(s) ==
  LET tracked == {s.peerCallsRef[p] : p \in Remote} \ {0} IN
  CloseEach(s, tracked)

\* peerCallsRef.current.forEach(call => call.close()); peerCallsRef.current.clear()
CloseAllCalls(s) ==
  LET tracked == {s.peerCallsRef[p] : p \in Remote} \ {0} IN
  [CloseEach(s, tracked) EXCEPT !.peerCallsRef = [p \in Remote |-> 0]]

\* peer.destroy(): the peer is destroyed and every connection made through it
\* closes (all calls are made and answered through newPeer, object 1)
Destroy(s, p) ==
  IF p = 0 \/ s.peers[p] = "none" THEN s
  ELSE LET t == [s EXCEPT !.peers[p] = "destroyed"] IN
       IF p = 1 THEN CloseEach(t, {c \in DOMAIN t.calls : t.calls[c].st = "open"}) ELSE t

----------------------------------------------------------------------------
(* The effects of the component *)

\* the microphone-permission effect (deps [meetingId])
PermissionEffect(s) ==
  IF s.meetingId THEN GetUserMedia(s, "perm", FALSE, TRUE, 0) ELSE s

\* ensureMedia up to its first await, with this render's cameraOn and micOn
EnsureMedia(s) ==
  LET current == s.mediaStreamRef IN
  IF s.micOn /\ current = 0 THEN GetUserMedia(s, "ensure", s.cameraOn, TRUE, 0)
  ELSE IF current # 0 /\ s.cameraOn /\ ~s.streams[current].video
       THEN GetUserMedia(s, "replace", TRUE, s.micOn, current)
       ELSE s

\* the part of the media effect after the call of ensureMedia
MediaEffectSync(s) ==
  IF s.peer # 0 /\ s.voiceSocket /\ s.user /\ s.meetingId
  THEN IF s.micOn /\ s.mediaStreamRef # 0
       THEN Emit(s, "join-voice-room")
       ELSE CloseAllCalls(s)
  ELSE s

\* the media effect (deps [cameraOn, micOn, peer, voiceSocket, meetingId, user])
MediaEffect(s) == MediaEffectSync(EnsureMedia(s))

\* its cleanup: mounted = false in the run it belongs to
MediaCleanup(s) ==
  [s EXCEPT !.pending = {IF r.kind = "perm" THEN r ELSE [r EXCEPT !.mounted = FALSE] : r \in @}]

\* the cleanup of the last effect (deps [socket, voiceSocket, peer]), with the
\* socket, voiceSocket and peer of the render that registered it
UnmountCleanup(s, sock, vsock, p) ==
  LET s1 == [StopTracks(s, s.mediaStreamRef) EXCEPT !.mediaStreamRef = 0]
      s2 == [s1 EXCEPT !.chatConn = IF sock THEN Disconnect(@) ELSE @,
                       !.voiceConn = IF vsock THEN Disconnect(@) ELSE @]
  IN CloseAllCalls(Destroy(s2, p))

\* the socket/peer effect (deps [meetingId, token, user?.id])
SocketPeerEffect(s) ==
  IF ~s.meetingId \/ ~s.token \/ ~s.user THEN s
  ELSE [s EXCEPT !.chatConn = "connecting", !.socket = TRUE,
                 !.voiceConn = "connecting", !.voiceSocket = TRUE,
                 !.peers[1] = "connecting", !.peer = 1, !.peerStatus = "connecting",
                 !.connectionTimeout = TRUE, !.fetchPending = TRUE,
                 !.hasJoined = FALSE, !.closureMicOn = s.micOn]

\* its cleanup
SocketPeerCleanup(s) ==
  IF ~s.meetingId \/ ~s.token \/ ~s.user THEN s
  ELSE Destroy([s EXCEPT !.connectionTimeout = FALSE,
                         !.chatConn = Disconnect(@), !.voiceConn = Disconnect(@)], 1)

\* The commit after a handler: old is the state the handler started in, new
\* the state it left.  Cleanups of the effects whose deps changed run first,
\* then the effects.
Rerender(old, new) ==
  IF new.phase # "running" THEN new
  ELSE LET media == <<old.cameraOn, old.micOn, old.peer, old.voiceSocket>>
                      # <<new.cameraOn, new.micOn, new.peer, new.voiceSocket>>
           last == <<old.socket, old.voiceSocket, old.peer>>
                      # <<new.socket, new.voiceSocket, new.peer>>
           s1 == IF media THEN MediaCleanup(new) ELSE new
           s2 == IF last THEN UnmountCleanup(s1, old.socket, old.voiceSocket, old.peer) ELSE s1
       IN IF media THEN MediaEffect(s2) ELSE s2

\* The first commit: the effects run in order with the first render's state
\* (peer, socket and voiceSocket still null), then the state the socket/peer
\* effect set is committed.
MountEffects(s) ==
  LET s1 == MediaEffect(PermissionEffect(s))
      s2 == SocketPeerEffect(s1)
  IN Rerender(s1, s2)

\* Leaving the page: every effect's cleanup runs
UnmountAll(s) ==
  IF s.phase # "running" THEN s
  ELSE LET s1 == SocketPeerCleanup(s)
           s2 == MediaCleanup(s1)
           s3 == UnmountCleanup(s2, s.socket, s.voiceSocket, s.peer)
       IN [s3 EXCEPT !.phase = "unmounted"]

\* navigate('/realtime'): the route changes and the component unmounts
Navigate(s) == UnmountAll([s EXCEPT !.navigates = Inc(@)])

----------------------------------------------------------------------------
(* Actions *)

\* setState is ignored once the component is unmounted
Mounted(s) == s.phase = "running"

Mount ==
  /\ phase = "rendered"
  /\ Step(MountEffects([Cur EXCEPT !.phase = "running"]))

\* the page is left by other means (browser back, window.history.back())
Unmount ==
  /\ phase = "running"
  /\ Step(UnmountAll(Cur))

(* ---- device acquisition ---- *)

Granted(s, r) == [st |-> "live", video |-> r.video, audio |-> r.audio]

\* requestMicrophonePermission after its await, permission granted
PermissionGranted(s, r) ==
  LET s1 == [s EXCEPT !.pending = @ \ {r}, !.streams[r.n] = Granted(s, r),
                      !.mediaStreamRef = r.n]
      s2 == StopTracks(s1, r.n)
  IN IF Mounted(s2) THEN [s2 EXCEPT !.micOn = TRUE] ELSE s2

\* requestMicrophonePermission, catch
PermissionDenied(s, r, name) ==
  LET s1 == [s EXCEPT !.pending = @ \ {r},
                      !.alerts = IF name = "NotAllowedError" THEN @ \cup {"allow-microphone"} ELSE @]
  IN IF Mounted(s1) THEN [s1 EXCEPT !.micOn = FALSE] ELSE s1

\* ensureMedia after its await, without the test of mounted
EnsureGranted_NoMountedTest(s, r) ==
  LET s1 == [s EXCEPT !.pending = @ \ {r}, !.streams[r.n] = Granted(s, r)] IN
  IF r.kind = "ensure" THEN [s1 EXCEPT !.mediaStreamRef = r.n]
  ELSE [StopTracks(s1, r.cur) EXCEPT !.mediaStreamRef = r.n]

\* ensureMedia after its await, stream granted
EnsureGranted(s, r) ==
  LET s1 == [s EXCEPT !.pending = @ \ {r}, !.streams[r.n] = Granted(s, r)] IN
  IF ~r.mounted THEN StopTracks(s1, r.n)
  ELSE IF r.kind = "ensure" THEN [s1 EXCEPT !.mediaStreamRef = r.n]
  ELSE [StopTracks(s1, r.cur) EXCEPT !.mediaStreamRef = r.n]

\* ensureMedia, catch, had it switched off only the microphone
EnsureDenied_MicOnly(s, r, name) ==
  LET s1 == [s EXCEPT !.pending = @ \ {r},
                      !.alerts = IF name = "NotAllowedError" THEN @ \cup {"allow-devices"} ELSE @]
  IN IF Mounted(s1) THEN [s1 EXCEPT !.micOn = FALSE] ELSE s1

\* ensureMedia, catch
EnsureDenied(s, r, name) ==
  LET s1 == [s EXCEPT !.pending = @ \ {r},
                      !.alerts = IF name = "NotAllowedError" THEN @ \cup {"allow-devices"} ELSE @]
  IN IF Mounted(s1) THEN [s1 EXCEPT !.cameraOn = FALSE, !.micOn = FALSE] ELSE s1

ErrorNames == {"NotAllowedError", "NotFoundError"}

MicPermissionResolves ==
  \E r \in pending :
    /\ r.kind = "perm"
    /\ Step(Rerender(Cur, PermissionGranted(Cur, r)))

MicPermissionRejects ==
  \E r \in pending, name \in ErrorNames :
    /\ r.kind = "perm"
    /\ Step(Did(Rerender(Cur, PermissionDenied(Cur, r, name)), "denied-perm", r.n, <<name>>, 0))

EnsureMediaResolves ==
  \E r \in pending :
    /\ r.kind # "perm"
    /\ Step(Rerender(Cur, EnsureGranted(Cur, r)))

EnsureMediaRejects ==
  \E r \in pending, name \in ErrorNames :
    /\ r.kind # "perm"
    /\ Step(Did(Rerender(Cur, EnsureDenied(Cur, r, name)), "denied-ensure", r.n, <<name>>, 0))

\* the camera and microphone buttons (not rendered once the meeting ended)
ToggleCamera ==
  /\ phase = "running" /\ ~meetingEnded
  /\ Step(Rerender(Cur, [Cur EXCEPT !.cameraOn = ~@]))

ToggleMic ==
  /\ phase = "running" /\ ~meetingEnded
  /\ Step(Rerender(Cur, [Cur EXCEPT !.micOn = ~@]))

(* ---- chat channel ---- *)

\* handleConnect without hasJoined = true
HandleConnect_FlagNotSet(s) ==
  LET s1 == [s EXCEPT !.chatConn = "connected", !.chatConnects = Inc(@)] IN
  IF ~s1.hasJoined
  THEN [Emit(s1, "join-meeting") EXCEPT !.joinedConn = s1.chatConnects]
  ELSE s1

\* handleConnect
HandleConnect(s) ==
  LET s1 == [s EXCEPT !.chatConn = "connected", !.chatConnects = Inc(@)] IN
  IF ~s1.hasJoined
  THEN [Emit(s1, "join-meeting") EXCEPT !.hasJoined = TRUE, !.joinedConn = s1.chatConnects]
  ELSE s1

ChatConnect ==
  /\ chatConn \in {"connecting", "reconnecting"}
  /\ Step([HandleConnect(Cur) EXCEPT !.attempts.chat = 0])

\* the transport drops; socket.io starts to reconnect
ChatDrop ==
  /\ chatConn = "connected"
  /\ Step([Cur EXCEPT !.chatConn = "reconnecting"])

VoiceConnect ==
  /\ voiceConn \in {"connecting", "reconnecting"}
  /\ Step([Cur EXCEPT !.voiceConn = "connected", !.attempts.voice = 0])

VoiceDrop ==
  /\ voiceConn = "connected"
  /\ Step([Cur EXCEPT !.voiceConn = "reconnecting"])

\* socket.io, with reconnection on: a connection attempt fails.  The first
\* open is followed by reconnection attempts; the attempt that uses up
\* reconnectionAttempts is the last and the channel stays down.  The
\* component listens to neither 'connect_error' nor 'reconnect_failed'.
AttemptFailed(conn, n) ==
  IF conn = "connecting" THEN [conn |-> "reconnecting", n |-> 0]
  ELSE IF n + 1 >= ReconnectionAttempts THEN [conn |-> "failed", n |-> n + 1]
  ELSE [conn |-> conn, n |-> n + 1]

ChatAttemptFails ==
  /\ chatConn \in {"connecting", "reconnecting"}
  /\ LET a == AttemptFailed(chatConn, attempts.chat) IN
       Step([Cur EXCEPT !.chatConn = a.conn, !.attempts.chat = a.n])

VoiceAttemptFails ==
  /\ voiceConn \in {"connecting", "reconnecting"}
  /\ LET a == AttemptFailed(voiceConn, attempts.voice) IN
       Step([Cur EXCEPT !.voiceConn = a.conn, !.attempts.voice = a.n])

(* ---- the meeting metadata query ---- *)

FetchMeeting(s, ok) ==
  LET s1 == [s EXCEPT !.fetchPending = FALSE] IN
  IF ok /\ s1.creatorIsUser /\ Mounted(s1) THEN [s1 EXCEPT !.isCreator = TRUE] ELSE s1

FetchMeetingSettles ==
  /\ fetchPending
  /\ \E ok \in BOOLEAN : Step(Rerender(Cur, FetchMeeting(Cur, ok)))

(* ---- roster ---- *)

Entry(u) == [id |-> u, name |-> IF u = LocalId THEN "Tu" ELSE "name", isLocal |-> u = LocalId]

\* 'participants-list'
ParticipantsListHandler(s, list) ==
  LET s1 == [s EXCEPT !.pureJoins = FALSE] IN
  IF Mounted(s1) THEN [s1 EXCEPT !.participants = [i \in DOMAIN list |-> Entry(list[i])]] ELSE s1

\* 'user-joined' without the test for an id already present
UserJoinedHandler_NoDuplicateTest(s, u) ==
  LET prev == s.participants
      s1 == IF u = s.nJoins + 1 THEN [s EXCEPT !.nJoins = @ + 1] ELSE [s EXCEPT !.pureJoins = FALSE]
  IN IF ~(s1.phase = "running") \/ Len(prev) >= RosterCap
     THEN s1
     ELSE [s1 EXCEPT !.participants = Append(prev, [id |-> u, name |-> "name", isLocal |-> FALSE])]

\* 'user-joined' with the cap tested by > in place of >=
UserJoinedHandler_CapOffByOne(s, u) ==
  LET prev == s.participants
      s1 == IF u = s.nJoins + 1 THEN [s EXCEPT !.nJoins = @ + 1] ELSE [s EXCEPT !.pureJoins = FALSE]
  IN IF ~(s1.phase = "running") \/ (\E i \in DOMAIN prev : prev[i].id = u) \/ Len(prev) > RosterCap
     THEN s1
     ELSE [s1 EXCEPT !.participants = Append(prev, [id |-> u, name |-> "name", isLocal |-> FALSE])]

\* 'user-joined'
UserJoinedHandler(s, u) ==
  LET prev == s.participants
      s1 == IF u = s.nJoins + 1 THEN [s EXCEPT !.nJoins = @ + 1] ELSE [s EXCEPT !.pureJoins = FALSE]
  IN IF ~Mounted(s1) \/ (\E i \in DOMAIN prev : prev[i].id = u) \/ Len(prev) >= RosterCap
     THEN s1
     ELSE [s1 EXCEPT !.participants = Append(prev, [id |-> u, name |-> "name", isLocal |-> FALSE])]

\* 'user-left'
UserLeftHandler(s, u) ==
  LET s1 == [s EXCEPT !.pureJoins = FALSE] IN
  IF Mounted(s1) THEN [s1 EXCEPT !.participants = SelectSeq(@, LAMBDA p : p.id # u)] ELSE s1

Lists == {<<>>, <<LocalId>>, <<1>>, <<LocalId, 1>>, <<1, LocalId, 2>>, <<LocalId, LocalId>>}

ParticipantsList ==
  /\ chatConn = "connected"
  /\ \E list \in Lists :
       Step(Did(ParticipantsListHandler(Cur, list), "participants-list", 0, <<>>, Len(participants)))

UserJoined(ids) ==
  /\ chatConn = "connected"
  /\ \E u \in ids :
       Step(Did(UserJoinedHandler(Cur, u), "user-joined", u, <<>>, Len(participants)))

UserLeft(ids) ==
  /\ chatConn = "connected"
  /\ \E u \in ids :
       Step(Did(UserLeftHandler(Cur, u), "user-left", u, <<>>, Len(participants)))

(* ---- chat ---- *)

\* 'receive-message'
ReceiveMessageHandler(s, author, text) ==
  IF Mounted(s)
  THEN [s EXCEPT !.messages = Append(@, [id |-> Len(@) + 1, author |-> author, text |-> text])]
  ELSE s

ReceiveMessage ==
  /\ chatConn = "connected"
  /\ \E text \in {<<"h">>} : Step(ReceiveMessageHandler(Cur, "Ana", text))

\* 'error' on the chat socket and 'voice-error' on the voice socket
SocketError ==
  /\ chatConn = "connected"
  /\ Step([Cur EXCEPT !.alerts = @ \cup {"Error: msg"}])

VoiceError ==
  /\ voiceConn = "connected"
  /\ Step([Cur EXCEPT !.alerts = @ \cup {"Voice error: msg"}])

(* ---- remote end of the meeting ---- *)

\* 'meeting-ended'
MeetingEndedHandler(s, message) ==
  LET s1 == [s EXCEPT !.alerts = @ \cup {message}, !.navTimers = @ + 1,
                      !.endedReceived = @ \cup {message}]
  IN IF Mounted(s1) THEN [s1 EXCEPT !.meetingEnded = TRUE] ELSE s1

MeetingEnded ==
  /\ chatConn = "connected"
  /\ \E message \in Reasons : Step(Rerender(Cur, MeetingEndedHandler(Cur, message)))

\* setTimeout(() => navigate('/realtime'), 3000)
NavigateTimerFires ==
  /\ navTimers > 0
  /\ Step(Navigate([Cur EXCEPT !.navTimers = @ - 1]))

(* ---- hangup ---- *)

\* hangup() after the owner branch
HangupTail(s) ==
  LET s1 == IF s.user /\ s.voiceSocket THEN Emit(s, "leave-voice-room") ELSE s
      s2 == IF Mounted(s1) THEN [s1 EXCEPT !.participants = <<>>] ELSE s1
  IN Navigate([s2 EXCEPT !.pureJoins = FALSE])

\* hangup() emitting end-meeting before the endpoint call
HangupStart_EmitFirst(s) ==
  IF s.isCreator /\ s.meetingId /\ s.token
  THEN Emit([s EXCEPT !.endpointCalls = @ + 1, !.hangupsAwaiting = @ + 1,
                      !.ownerHangups = @ + 1, !.lastHangup = "awaiting"], "end-meeting")
  ELSE HangupTail([s EXCEPT !.lastHangup = "plain"])

\* hangup() up to its await, or to its end when the owner branch is not taken
HangupStart(s) ==
  IF s.isCreator /\ s.meetingId /\ s.token
  THEN [s EXCEPT !.endpointCalls = @ + 1, !.hangupsAwaiting = @ + 1,
                 !.ownerHangups = @ + 1, !.lastHangup = "awaiting"]
  ELSE HangupTail([s EXCEPT !.lastHangup = "plain"])

\* hangup() after the await: the endpoint call completed (whatever the HTTP status)
HangupResume(s) ==
  HangupTail(Emit([s EXCEPT !.hangupsAwaiting = @ - 1, !.lastHangup = "ended"], "end-meeting"))

\* hangup() after the await: fetch rejected, catch
HangupCatch(s) ==
  HangupTail([s EXCEPT !.hangupsAwaiting = @ - 1, !.endpointFailed = @ + 1,
                       !.lastHangup = "failed"])

Hangup ==
  /\ phase = "running" /\ ~meetingEnded
  /\ Step(HangupStart(Cur))

EndpointResolves ==
  /\ hangupsAwaiting > 0
  /\ Step(HangupResume(Cur))

EndpointRejects ==
  /\ hangupsAwaiting > 0
  /\ Step(HangupCatch(Cur))

\* sendMessage testing chatInput, not the trimmed text, for emptiness
SendMessageHandler_TestsUntrimmed(s, input) ==
  LET text == Trim(input)
  IN IF input = <<>> \/ ~s.socket \/ s.meetingEnded THEN s
     ELSE [Emit(s, "send-message") EXCEPT
             !.messages = Append(@, [id |-> Len(@) + 1, author |-> "Tu", text |-> text])]

\* sendMessage appending chatInput, not the trimmed text
SendMessageHandler_AppendsUntrimmed(s, input) ==
  LET text == Trim(input)
  IN IF text = <<>> \/ ~s.socket \/ s.meetingEnded THEN s
     ELSE [Emit(s, "send-message") EXCEPT
             !.messages = Append(@, [id |-> Len(@) + 1, author |-> "Tu", text |-> input])]

\* sendMessage with chatInput = text
SendMessageHandler(s, input) ==
  LET text == Trim(input)
  IN IF text = <<>> \/ ~s.socket \/ s.meetingEnded THEN s
     ELSE [Emit(s, "send-message") EXCEPT
             !.messages = Append(@, [id |-> Len(@) + 1, author |-> "Tu", text |-> text])]

SendMessage ==
  /\ phase = "running"
  /\ \E input \in Texts :
       Step(Did(SendMessageHandler(Cur, input), "send", 0, input, Len(messages)))

(* ---- the peer ---- *)

SetPeerStatus(s, v) == IF Mounted(s) THEN [s EXCEPT !.peerStatus = v] ELSE s

\* new Peer(`${user.id}_${Date.now()}`, ...); setPeer(it)
ReplacePeer(s) ==
  LET s1 == [s EXCEPT !.peers[2] = "connecting"] IN
  IF Mounted(s1) THEN [s1 EXCEPT !.peer = 2] ELSE s1

\* newPeer.on('open')
PeerOpenHandler(s) ==
  SetPeerStatus([s EXCEPT !.peers[1] = "open", !.connectionTimeout = FALSE,
                          !.joinTimers = @ + 1], "connected")

\* newPeer.on('error'): what the handler does for an error of type ty
PeerErrorHandler(s, ty) ==
  IF ty \in {"network", "disconnected"}
  THEN SetPeerStatus([s EXCEPT !.retryTimers = @ + 1], "error")
  ELSE s

\* PeerJS aborts on a fatal error: a peer that never had an id is destroyed,
\* one that had is disconnected; then 'error' is emitted
PeerAbort(s, ty) ==
  LET s1 == IF s.peers[1] = "connecting" THEN Destroy(s, 1)
            ELSE [s EXCEPT !.peers[1] = "disconnected"]
  IN PeerErrorHandler(s1, ty)

\* the callback of the 20 s timer, had it been set with setInterval
ConnectionTimeoutHandler_Repeats(s) ==
  LET s1 == [s EXCEPT !.timeoutFired = Inc(@)] IN
  IF s1.peers[1] \notin {"disconnected", "destroyed"}
  THEN ReplacePeer(SetPeerStatus(s1, "error"))
  ELSE s1

\* the callback of the 20 s connectionTimeout
ConnectionTimeoutHandler(s) ==
  LET s1 == [s EXCEPT !.connectionTimeout = FALSE, !.timeoutFired = Inc(@)] IN
  IF s1.peers[1] \notin {"disconnected", "destroyed"}
  THEN ReplacePeer(SetPeerStatus(s1, "error"))
  ELSE s1

\* the callback of the 10 s timer of the error handler
RetryHandler(s) ==
  LET s1 == [s EXCEPT !.retryTimers = @ - 1] IN
  IF s1.peers[1] = "destroyed" THEN s1
  ELSE LET s2 == SetPeerStatus(s1, "connecting") IN
       CASE s2.peers[1] = "disconnected" -> [s2 EXCEPT !.peers[1] = "reconnecting"]
         [] s2.peers[1] = "open" -> ReplacePeer(s2)      \* reconnect() throws
         [] OTHER -> s2                                  \* still connecting: reconnect() only logs

\* the callback of the 1 s timer of the open handler
JoinVoiceRoomHandler(s) == Emit([s EXCEPT !.joinTimers = @ - 1], "join-voice-room")

PeerOpen ==
  /\ peers[1] \in {"connecting", "reconnecting"}
  /\ Step(Rerender(Cur, PeerOpenHandler(Cur)))

PeerError ==
  /\ peers[1] \in {"connecting", "reconnecting", "open"}
  /\ \E ty \in {"network", "unavailable-id"} :
       /\ ty = "unavailable-id" => peers[1] # "open"
       /\ Step(Rerender(Cur, PeerAbort(Cur, ty)))

ConnectionTimeoutFires ==
  /\ connectionTimeout
  /\ Step(Rerender(Cur, ConnectionTimeoutHandler(Cur)))

RetryTimerFires ==
  /\ retryTimers > 0
  /\ Step(Rerender(Cur, RetryHandler(Cur)))

JoinVoiceTimerFires ==
  /\ joinTimers > 0
  /\ Step(JoinVoiceRoomHandler(Cur))

\* the peer with the suffixed id is confirmed by the server; it has no handlers
ReplacementOpens ==
  /\ peers[2] = "connecting"
  /\ Step([Cur EXCEPT !.peers[2] = "open"])

(* ---- calls ---- *)

NewCall(s, p, dir, st) ==
  [s EXCEPT !.nCalls = @ + 1,
            !.calls[s.nCalls + 1] = [st |-> st, peer |-> p, dir |-> dir,
                                     closes |-> IF st = "closed" THEN 1 ELSE 0]]

\* initiateCall(newPeer, peerId)
InitiateCall(s, peerId) ==
  IF s.mediaStreamRef = 0 \/ (s.user /\ peerId = LocalId) THEN s
  ELSE IF s.peers[1] \in {"disconnected", "destroyed"}
       THEN PeerErrorHandler(s, "disconnected")       \* call() emits an error and returns nothing
       ELSE [NewCall(s, peerId, "out", "open") EXCEPT !.peerCallsRef[peerId] = s.nCalls + 1]

RECURSIVE CallEach(_, _)
CallEach(s, ps) ==
  IF ps = {} THEN s
  ELSE LET p == CHOOSE x \in ps : \A y \in ps : x <= y IN
       CallEach(IF s.closureMicOn /\ s.mediaStreamRef # 0 THEN InitiateCall(s, p) ELSE s,
                ps \ {p})

\* the callback of the 1.5 s timer of 'voice-joined' and of 'peer-joined'
CallTimerHandler(s) ==
  CallEach([s EXCEPT !.callTimers = Tail(@)], Head(s.callTimers))

\* newPeer.on('call')
IncomingCallHandler(s, p) ==
  IF s.closureMicOn /\ s.mediaStreamRef # 0
  THEN [NewCall(s, p, "in", "open") EXCEPT !.peerCallsRef[p] = s.nCalls + 1]
  ELSE NewCall(s, p, "in", "closed")

\* 'peer-disconnected'
PeerDisconnectedHandler(s, p) ==
  IF s.peerCallsRef[p] # 0
  THEN [Close(s, s.peerCallsRef[p]) EXCEPT !.peerCallsRef[p] = 0]
  ELSE s

PeerLists == (SUBSET ({LocalId} \cup Remote)) \ {{}, {LocalId}}

VoiceJoined ==
  /\ voiceConn = "connected" /\ emitted["join-voice-room"] > 0
  /\ \E ps \in PeerLists : Step([Cur EXCEPT !.callTimers = Append(@, ps)])

PeerJoined ==
  /\ voiceConn = "connected"
  /\ \E p \in Remote : Step([Cur EXCEPT !.callTimers = Append(@, {p})])

PeerDisconnected ==
  /\ voiceConn = "connected"
  /\ \E p \in Remote : Step(PeerDisconnectedHandler(Cur, p))

CallTimerFires ==
  /\ callTimers # <<>>
  /\ Step(Rerender(Cur, CallTimerHandler(Cur)))

IncomingCall ==
  /\ peers[1] = "open"
  /\ \E p \in Remote : Step(IncomingCallHandler(Cur, p))

\* the remote side closes a call: its 'close' handler runs
CallCloses ==
  \E c \in DOMAIN calls :
    /\ calls[c].st = "open"
    /\ Step(CallClosed(Cur, c))

\* an open call emits 'error': its 'error' handler runs
CallErrors ==
  \E c \in DOMAIN calls :
    /\ calls[c].st = "open"
    /\ Step(Did(CallErrorHandler(Cur, c), "call-error", c, <<>>, 0))

----------------------------------------------------------------------------
(* Specifications *)

MediaNext ==
  \/ MicPermissionResolves \/ MicPermissionRejects
  \/ EnsureMediaResolves \/ EnsureMediaRejects
  \/ ToggleCamera \/ ToggleMic

PeerNext ==
  \/ PeerOpen \/ PeerError \/ ConnectionTimeoutFires \/ RetryTimerFires
  \/ JoinVoiceTimerFires \/ ReplacementOpens

CallNext ==
  \/ VoiceConnect \/ VoiceDrop \/ VoiceAttemptFails \/ VoiceJoined \/ PeerJoined \/ PeerDisconnected
  \/ CallTimerFires \/ IncomingCall \/ CallCloses \/ CallErrors \/ VoiceError

ChatNext ==
  \/ ChatConnect \/ ChatDrop \/ ChatAttemptFails \/ ReceiveMessage \/ SendMessage \/ SocketError

RosterNext ==
  \/ ParticipantsList \/ UserJoined(Remote \cup {LocalId}) \/ UserLeft(Remote \cup {LocalId})

EndNext ==
  \/ FetchMeetingSettles \/ MeetingEnded \/ NavigateTimerFires
  \/ Hangup \/ EndpointResolves \/ EndpointRejects

Next == Mount \/ Unmount \/ MediaNext \/ PeerNext \/ CallNext \/ ChatNext \/ RosterNext \/ EndNext

Spec == Init /\ [][Next]_vars

(***************************************************************************)
(* The whole of Next is too large to enumerate.  Each specification below  *)
(* runs the handlers of one part of the component; every behaviour of such *)
(* a specification is a behaviour of Spec.                                 *)
(***************************************************************************)

InitStarted == Init /\ meetingId /\ token /\ user /\ ~creatorIsUser

\* the user is not the creator of the meeting
InitGuest == Init /\ ~creatorIsUser

\* device streams and the peer
MediaPeerNext == Mount \/ Unmount \/ MediaNext \/ PeerNext
SpecMedia == Init /\ [][MediaPeerNext]_vars

\* calls, with the streams and the peer they need
CallsNext ==
  \/ Mount \/ Unmount \/ MicPermissionResolves \/ EnsureMediaResolves \/ ToggleMic
  \/ PeerOpen \/ ConnectionTimeoutFires \/ JoinVoiceTimerFires
  \/ VoiceConnect \/ VoiceJoined \/ PeerJoined \/ PeerDisconnected
  \/ CallTimerFires \/ IncomingCall \/ CallCloses
SpecCalls == InitStarted /\ [][CallsNext]_vars

\* calls up to the teardown: placed, answered, closed by the remote side
TeardownNext ==
  \/ Mount \/ Unmount \/ MicPermissionResolves \/ PeerOpen
  \/ VoiceConnect \/ PeerJoined \/ PeerDisconnected
  \/ CallTimerFires \/ IncomingCall \/ CallCloses
SpecTeardown == InitStarted /\ [][TeardownNext]_vars

\* calls that are placed, answered, closed and that fail
CallErrorsNext == TeardownNext \/ CallErrors
SpecCallErrors == InitStarted /\ [][CallErrorsNext]_vars

\* the peer, with the calls that make it emit errors
PeerCallsNext ==
  \/ Mount \/ Unmount \/ PeerNext \/ EnsureMediaResolves
  \/ VoiceConnect \/ PeerJoined \/ CallTimerFires
SpecPeer == Init /\ [][PeerCallsNext]_vars

\* the peer under fairness: a timer that is due fires, a request to the device
\* is answered, and the server confirms the identity of a peer that waits for
\* it; errors and leaving the page may or may not happen
PeerLiveNext ==
  \/ Mount \/ Unmount \/ PeerNext \/ MicPermissionResolves \/ EnsureMediaResolves
PeerFairness ==
  /\ WF_vars(Mount) /\ WF_vars(PeerOpen) /\ WF_vars(ReplacementOpens)
  /\ WF_vars(ConnectionTimeoutFires) /\ WF_vars(RetryTimerFires)
  /\ WF_vars(JoinVoiceTimerFires)
  /\ WF_vars(MicPermissionResolves) /\ WF_vars(EnsureMediaResolves)
SpecPeerLive == InitStarted /\ [][PeerLiveNext]_vars /\ PeerFairness

\* the chat channel's connections and the end of the meeting, with the
\* replacement of the peer on a timeout (which disconnects the channels)
SessionNext ==
  \/ Mount \/ Unmount \/ ChatConnect \/ ChatDrop
  \/ EndNext \/ ConnectionTimeoutFires \/ PeerOpen
SpecSession == Init /\ [][SessionNext]_vars

\* the chat: messages sent and received while the channel connects, drops or
\* is disconnected by the replacement of the peer, and the meeting ends
ChatOnlyNext ==
  \/ Mount \/ Unmount \/ ChatConnect \/ ChatDrop \/ ReceiveMessage \/ SendMessage
  \/ MeetingEnded \/ NavigateTimerFires \/ ConnectionTimeoutFires
SpecChat == InitGuest /\ [][ChatOnlyNext]_vars

\* the roster: roster events run while every roster event so far was a join
\* with a fresh id (pureJoins, which never becomes true again once false)
RosterOnlyNext ==
  \/ Mount \/ Unmount \/ ChatConnect \/ ChatDrop \/ Hangup
  \/ pureJoins /\ (ParticipantsList \/ UserJoined({LocalId} \cup RosterIds)
                     \/ UserLeft({LocalId} \cup RosterIds))
SpecRoster == Init /\ [][RosterOnlyNext]_vars

\* device acquisition: the two effects that acquire, the toggles, and the
\* replacement of the peer, whose cleanup releases the held stream
AcquireNext ==
  \/ Mount \/ Unmount \/ MediaNext \/ ConnectionTimeoutFires
SpecAcquire == InitGuest /\ [][AcquireNext]_vars

\* the end of the meeting, with what can still run after it: device requests
\* that settle and the timer that replaces the peer
EndedNext ==
  \/ Mount \/ Unmount \/ ChatConnect \/ MeetingEnded \/ NavigateTimerFires
  \/ MediaNext \/ ConnectionTimeoutFires \/ PeerOpen
SpecEnded == InitStarted /\ [][EndedNext]_vars

\* the two channels: drops, reconnection attempts and server errors
ChannelsNext ==
  \/ Mount \/ Unmount \/ ChatConnect \/ ChatDrop \/ ChatAttemptFails \/ SocketError
  \/ VoiceConnect \/ VoiceDrop \/ VoiceAttemptFails \/ VoiceError
SpecChannels == InitStarted /\ [][ChannelsNext]_vars

\* the roster under every order of roster events, with few ids
RosterEventsNext ==
  \/ Mount \/ Unmount \/ ChatConnect \/ ChatDrop \/ RosterNext
SpecRosterEvents == Init /\ [][RosterEventsNext]_vars

----------------------------------------------------------------------------
(* Claims *)

TornDown == phase = "unmounted"

LiveStreams == {n \in DOMAIN streams : streams[n].st = "live"}
OpenCalls == {c \in DOMAIN calls : calls[c].st = "open"}

\* C1: after teardown no stream acquired in the session has a live track, both
\* channels are disconnected, every peer is destroyed and no call is open
C1_TeardownLeavesNothingOpen ==
  TornDown =>
    /\ LiveStreams = {}
    /\ chatConn \in {"none", "closed"} /\ voiceConn \in {"none", "closed"}
    /\ \A i \in DOMAIN peers : peers[i] \in {"none", "destroyed"}
    /\ OpenCalls = {}

\* C2: in every reachable state there is at most one live call per remote peer id
C2_OneLiveCallPerPeer ==
  \A p \in Remote : Cardinality({c \in OpenCalls : calls[c].peer = p}) <= 1

\* C4: a call is answered or placed only if, at that moment, the microphone
\* toggle is on and a local stream exists; an incoming call arriving otherwise
\* is closed at once and is not added to the call map
C4_CallsOnlyWithMicOn ==
  [][\A c \in DOMAIN calls :
       calls[c].st = "none" /\ calls'[c].st # "none" =>
         IF micOn /\ mediaStreamRef # 0
         THEN calls'[c].st = "open"
         ELSE calls'[c].st = "closed" /\ \A p \in Remote : peerCallsRef'[p] # c]_vars

\* C3 as stated: 'join-meeting' is emitted once for every connection of the chat
\* channel, the first one and every reconnection
C3_JoinOncePerConnection == emitted["join-meeting"] = chatConnects

\* C3 amended: 'join-meeting' is emitted exactly once in a session, on the first
\* connect event, and never again: not on a reconnection either, since hasJoined
\* is never reset
C3_JoinOncePerSession ==
  /\ emitted["join-meeting"] = IF chatConnects > 0 THEN 1 ELSE 0
  /\ joinedConn = emitted["join-meeting"]
  /\ hasJoined <=> chatConnects > 0

C3_Witness == chatConn = "connected" /\ chatConnects = 2 /\ emitted["join-meeting"] = 1

C6_EndedNavigatesOnceAfterDelay ==
  endedReceived # {} =>
    /\ phase = "running" => meetingEnded
    /\ endedReceived \subseteq alerts
    /\ navigates <= 1
    /\ navigates = 1 => navTimers = 0

\* C7: after a hangup that does not take the owner path, in a session that was
\* started, the endpoint was not called, 'end-meeting' was not emitted,
\* 'leave-voice-room' was, roster and transcript are empty and navigate was called
C7_PlainHangupClearsAll ==
  lastHangup = "plain" /\ voiceSocket =>
    /\ endpointCalls = 0 /\ emitted["end-meeting"] = 0
    /\ emitted["leave-voice-room"] = 1
    /\ participants = <<>> /\ messages = <<>>
    /\ navigates = 1

CompletedOwnerHangups == ownerHangups - hangupsAwaiting

\* C8 as stated: every owner hangup calls the endpoint once and, once the call is
\* over, has emitted 'end-meeting' and 'leave-voice-room', whatever the outcome
C8_EndSessionOnEveryOwnerHangup ==
  /\ endpointCalls = ownerHangups
  /\ emitted["end-meeting"] = Min(CompletedOwnerHangups, MaxCount)
  /\ ownerHangups > 0 => emitted["leave-voice-room"] = Min(CompletedOwnerHangups, MaxCount)

\* C8 amended: every owner hangup calls the endpoint once; when the call
\* completes, 'end-meeting' is emitted once, after the call, and then
\* 'leave-voice-room'; when the call fails (fetch rejects), 'end-meeting' is not
\* emitted and 'leave-voice-room' still is
C8_EndSessionUnlessEndpointFails ==
  /\ endpointCalls = ownerHangups
  /\ emitted["end-meeting"] = Min(CompletedOwnerHangups - endpointFailed, MaxCount)
  /\ ownerHangups > 0 => emitted["leave-voice-room"] = Min(CompletedOwnerHangups, MaxCount)

C8_Witness ==
  /\ ownerHangups = 2 /\ hangupsAwaiting = 0 /\ endpointFailed = 1
  /\ emitted["end-meeting"] = 1 /\ emitted["leave-voice-room"] = 2

LocalEntries == {i \in DOMAIN participants : participants[i].isLocal}

\* C9: while the session runs the roster holds exactly one entry with isLocal
C9_ExactlyOneLocal == phase = "running" => Cardinality(LocalEntries) = 1

\* C10: after N 'user-joined' events with fresh ids and no other roster event,
\* the roster holds min(N + 1, 10) entries
C10_RosterSize ==
  phase = "running" /\ pureJoins => Len(participants) = Min(nJoins + 1, RosterCap)

C10_Witness ==
  phase = "running" /\ pureJoins /\ nJoins = RosterCap + 1 /\ Len(participants) = RosterCap

InRoster(u) == \E i \in DOMAIN participants : participants[i].id = u

\* C11: a 'user-joined' event whose id is already in the roster leaves the
\* roster as it was, for every roster reached by list, join and leave events
C11_DuplicateJoinIsNoOp ==
  [][lastOp' # lastOp /\ lastOp'.op = "user-joined" /\ InRoster(lastOp'.id)
       => participants' = participants]_vars

C11_Witness ==
  /\ phase = "running" /\ lastOp.op = "user-joined" /\ lastOp.id \in Remote
  /\ InRoster(lastOp.id) /\ lastOp.n = Len(participants) /\ Len(participants) = 3

\* the requests ensureMedia made in this step for audio without video
NewAudioRequests ==
  {r \in pending' : r.n > nAcq /\ r.kind = "ensure" /\ ~r.video /\ r.audio}

\* C12 as stated: of two consecutive runs of ensure(video=false, audio=true) only
\* the first acquires: no run acquires while the acquisition of an earlier run
\* is in flight, and one commit does not make two acquisitions
C12_SecondRunAcquiresNothing ==
  [][/\ Cardinality(NewAudioRequests) <= 1
     /\ NewAudioRequests # {} => ~\E r \in pending : r.kind = "ensure"]_vars

\* C12 amended: a run of ensure acquires only when no stream is held as it
\* starts; of the acquisitions in flight at most one belongs to a run that was
\* not superseded, and a stream arriving for a superseded run is stopped and
\* is not stored
C12_RunAcquiresOnlyWithoutStream ==
  /\ [][NewAudioRequests # {} => mediaStreamRef' = 0 /\ micOn']_vars
  /\ [][\A r \in pending :
          r.kind # "perm" /\ ~r.mounted /\ streams'[r.n].st # "none"
            => streams'[r.n].st = "stopped" /\ mediaStreamRef' # r.n]_vars
  /\ [](Cardinality({r \in pending : r.kind # "perm" /\ r.mounted}) <= 1)

C12_Witness ==
  /\ phase = "running" /\ nAcq = 3 /\ streams[2].st = "stopped"
  /\ mediaStreamRef = 3 /\ streams[3].st = "live" /\ ~streams[3].video

\* the calls in the call map
Tracked == {peerCallsRef[p] : p \in Remote} \ {0}

Teardown == phase = "running" /\ phase' = "unmounted"

\* C13 as stated: after the teardown the call map is empty and close was invoked
\* exactly once on each call that was in the map when the teardown began
C13_EachTrackedCallClosedOnce ==
  [][Teardown =>
       /\ \A p \in Remote : peerCallsRef'[p] = 0
       /\ \A c \in Tracked : calls'[c].closes = 1]_vars

\* C13 amended: after the teardown the call map is empty and each call that was
\* in the map is closed; close was invoked on it at most twice (by the
\* destruction of the peer and, for a call still in the map after that, again
\* by the cleanup), and at least once if the call was still open
C13_EachTrackedCallClosed ==
  [][Teardown =>
       /\ \A p \in Remote : peerCallsRef'[p] = 0
       /\ \A c \in Tracked :
            /\ calls'[c].st = "closed" /\ calls'[c].closes \in 0..2
            /\ calls[c].st = "open" => calls'[c].closes >= 1]_vars

C13_Witness ==
  /\ phase = "unmounted" /\ \A p \in Remote : peerCallsRef[p] = 0
  /\ \E c \in DOMAIN calls : calls[c].dir = "in" /\ calls[c].st = "closed" /\ calls[c].closes = 2
  /\ \E c \in DOMAIN calls : calls[c].dir = "out" /\ calls[c].st = "closed" /\ calls[c].closes = 1

\* this step is a call of sendMessage
Sent == lastOp' # lastOp /\ lastOp'.op = "send"

\* is the text empty or white space only
Blank(t) == \A i \in DOMAIN t : t[i] = " "

\* C14: sendMessage with an empty or white-space-only text emits nothing and
\* leaves the transcript unchanged
C14_BlankSendIsNoOp ==
  [][Sent /\ Blank(lastOp'.text) => emitted' = emitted /\ messages' = messages]_vars

C14_Witness ==
  /\ phase = "running" /\ socket /\ ~meetingEnded
  /\ lastOp.op = "send" /\ lastOp.text = <<" ">> /\ Len(messages) = lastOp.n

\* C15: sendMessage with a text that is not blank, the chat channel set and the
\* meeting not ended appends one entry with author "Tu" and the trimmed text
\* and emits one 'send-message', in the same step
C15_SendAppendsAndEmits ==
  [][Sent /\ ~Blank(lastOp'.text) /\ socket /\ ~meetingEnded =>
       /\ messages' = Append(messages, [id |-> Len(messages) + 1, author |-> "Tu",
                                        text |-> Trim(lastOp'.text)])
       /\ emitted' = [emitted EXCEPT !["send-message"] = @ + 1]]_vars

C15_Witness ==
  /\ lastOp.op = "send" /\ lastOp.text = <<" ", "h", " ">>
  /\ Len(messages) = lastOp.n + 1 /\ messages[Len(messages)].text = <<"h">>
  /\ messages[Len(messages)].author = "Tu" /\ emitted["send-message"] = 1

\* C20: sendMessage emits nothing and appends nothing when the meeting has
\* ended or the chat channel is unavailable: never opened, or disconnected
C20_NoSendWhenEndedOrUnavailable ==
  [][Sent /\ (meetingEnded \/ ~socket \/ chatConn \in {"none", "reconnecting", "closed"})
       => emitted' = emitted /\ messages' = messages]_vars

\* C16: when meetingId, user or token is absent, no channel is opened, no peer
\* is opened, no device stream is requested and no event is emitted
C16_StartWithoutPropsIsNoOp ==
  ~(meetingId /\ token /\ user) =>
    /\ chatConn = "none" /\ voiceConn = "none"
    /\ \A i \in DOMAIN peers : peers[i] = "none"
    /\ nAcq = 0
    /\ \A e \in Events : emitted[e] = 0

\* C17: at no time do two device streams have live tracks
C17_AtMostOneLiveStream == Cardinality(LiveStreams) <= 1

\* the calls placed (not answered) in this step
Placed == {c \in DOMAIN calls : calls[c].st = "none" /\ calls'[c].dir = "out"}

\* C19: once the voice room was joined, an outbound call is placed only while
\* the peer is open and its status is connected
C19_CallsOnlyWhenConnected ==
  [][Placed # {} /\ emitted["join-voice-room"] > 0
       => peerStatus = "connected" /\ peers[1] = "open"]_vars

\* C18: while the page is shown, a peer whose status is connecting or error
\* eventually has status connected (every error or timeout is followed by a
\* new attempt, and the server confirms the identity of the peer that asks)
C18_EventuallyConnected ==
  (phase = "running" /\ peerStatus \in {"connecting", "error"})
    ~> (peerStatus = "connected" \/ phase = "unmounted")

\* C21: meetingEnded never becomes false again, and once it is true no step
\* that leaves the page shown requests a device, emits 'join-voice-room' or
\* changes the call map
C21_EndedIsTerminal ==
  [][meetingEnded =>
       /\ meetingEnded'
       /\ phase' = "running" =>
            /\ nAcq' = nAcq
            /\ emitted'["join-voice-room"] = emitted["join-voice-room"]
            /\ peerCallsRef' = peerCallsRef]_vars

\* C22: the step in which a channel uses up its reconnection attempts shows
\* an error (an alert or the error status) and leaves the session as it was:
\* not ended, same roster, transcript, toggles and stream
C22_ReconnectFailureIsShown ==
  [][\/ chatConn' = "failed" /\ chatConn # "failed"
     \/ voiceConn' = "failed" /\ voiceConn # "failed"
     => /\ alerts' # alerts \/ (peerStatus' = "error" /\ peerStatus # "error")
        /\ meetingEnded' = meetingEnded /\ participants' = participants
        /\ messages' = messages /\ cameraOn' = cameraOn /\ micOn' = micOn
        /\ mediaStreamRef' = mediaStreamRef /\ streams' = streams]_vars

\* C23: an 'error' on call c removes c from the call map, whether c was placed
\* or answered, and changes no other entry, no other call and no channel
C23_CallErrorRemovesThatCall ==
  [][lastOp' # lastOp /\ lastOp'.op = "call-error" =>
       LET c == lastOp'.id IN
       /\ peerCallsRef' = [p \in Remote |-> IF peerCallsRef[p] = c THEN 0 ELSE peerCallsRef[p]]
       /\ \A d \in DOMAIN calls : d # c => calls'[d] = calls[d]
       /\ chatConn' = chatConn /\ voiceConn' = voiceConn
       /\ meetingEnded' = meetingEnded /\ participants' = participants
       /\ messages' = messages /\ mediaStreamRef' = mediaStreamRef]_vars

\* C24: after the teardown nothing that was started during the session acts:
\* no emission, no call, no navigation, no stream stored or made live and no
\* change of the component's state
C24_NothingActsAfterTeardown ==
  [][phase = "unmounted" =>
       /\ emitted' = emitted /\ nCalls' = nCalls /\ navigates' = navigates
       /\ mediaStreamRef' = mediaStreamRef /\ LiveStreams' \subseteq LiveStreams
       /\ peerStatus' = peerStatus /\ micOn' = micOn /\ cameraOn' = cameraOn
       /\ isCreator' = isCreator /\ peer' = peer /\ retryTimers' <= retryTimers]_vars

\* C25: while the peer is open and the status is Connected, the 20 s timeout
\* does not fire and a 10 s retry timer that fires does nothing
C25_NoStaleTimerAfterOpen ==
  [][phase = "running" /\ peer = 1 /\ peers[1] = "open" /\ peerStatus = "connected" =>
       /\ timeoutFired' = timeoutFired
       /\ retryTimers' < retryTimers =>
            peerStatus' = peerStatus /\ peer' = peer /\ peers' = peers]_vars

\* a device request was rejected in this step, while the page is shown
Denied(op) == lastOp' # lastOp /\ lastOp'.op = op /\ phase = "running"

C27_ReplacingPeerKeepsChannelsAndStream ==
  [][peer # 0 /\ peer' # peer /\ phase' = "running" =>
       /\ chatConn' = chatConn /\ voiceConn' = voiceConn
       /\ mediaStreamRef' = mediaStreamRef
       /\ mediaStreamRef # 0 => streams'[mediaStreamRef] = streams[mediaStreamRef]]_vars

\* the identity of the peer object in the peer state: user.id for the first
\* peer, user.id with a time suffix for a replacement
PeerIdentity(p) == IF p = 2 THEN <<LocalId, "_", "Date.now()">> ELSE <<LocalId>>

\* the peerId sent with 'join-voice-room': user.id at every emission
AnnouncedPeerId == <<LocalId>>

\* C28: at every emission of 'join-voice-room' the peer id announced is the
\* identity of the peer in use, and that peer is open with status Connected
C28_AnnouncedIdIsConnectedPeer ==
  [][emitted'["join-voice-room"] # emitted["join-voice-room"] =>
       /\ peer' # 0 /\ AnnouncedPeerId = PeerIdentity(peer')
       /\ peers'[peer'] = "open" /\ peerStatus' = "connected"]_vars

\* C29: a hangup on a started session by the user who created the meeting
\* takes the owner path
C29_CreatorHangupIsOwnerHangup ==
  creatorIsUser /\ meetingId /\ token /\ user /\ lastHangup # "none" => ownerHangups > 0

\* C30: on a page that is shown, a held stream has live tracks
C30_HeldStreamIsLive ==
  phase = "running" /\ mediaStreamRef # 0 => streams[mediaStreamRef].st = "live"
====
